---- MODULE Spec2Model ----
(***************************************************************************)
(* Model of pavao's SMB client (src/pavao/src/smb/client.rs).              *)
(*                                                                         *)
(* Spec     : threads constructing, using and dropping SmbClient values;   *)
(*            the three kinds of lock (SMBC_MUTEX, AUTH_SERVICE, the       *)
(*            per-client ctx mutex), the native heap of contexts and the   *)
(*            credential registry.                                         *)
(* SpecAuth : one invocation of auth_wrapper on engine-supplied buffers.   *)
(* SpecOps  : the public operations of one client, run to completion       *)
(*            against an engine that chooses every return value.          *)
(* SpecCfg  : the getters and setters of one client's connection settings. *)
(* SpecUse  : threads calling operations on clients already constructed;   *)
(*            SpecUseFair and SpecOpsFair add the fairness of the threads. *)
(* SpecUri  : build_uri and uri on bounded strings.                        *)
(***************************************************************************)
EXTENDS Integers, Sequences, FiniteSets, TLC

\* ---------------------------------------------------------------- bounds
NumThreads == 2
NumAddrs == 2
\* longest credential string, and most records the engine returns for a directory
MaxStrLen == 2
MaxRecords == 3
\* width of usize in the model (the build's is 64; TLC's integers are narrower)
UsizeBits == 16

Threads == 1..NumThreads
\* addresses the engine's allocator hands out
Addrs == 1..NumAddrs
\* client values: each live one owns a context, so no more are live than addresses
Clients == 1..NumAddrs

\* the null pointer, the absent credential set (AuthService::get's default)
Null == 0
NoCreds == 0
NoThread == 0
NoClient == 0

VARIABLES
  pc,            \* [Threads -> label]: each thread's position
  cl,            \* [Threads -> client]: the client the thread's call is on
  creds,         \* [Threads -> creds]: auth_wrapper's local `creds`
  st,            \* [Clients -> "none" | "new" | "alive" | "drop" | "dead"]
  ctx,           \* [Clients -> address]: SmbContext.inner of the client
  nfree,         \* [Clients -> Nat]: smbc_free_context calls on the client's context
  heap,          \* [Addrs -> "free" | "alloc" | "init" | "auth"]: the engine's contexts
  AUTH_SERVICE,  \* [identity -> creds]: the AuthService map
  holder,        \* [Locks -> thread]: who holds each mutex
  \* SpecAuth: one invocation of auth_wrapper
  authIn,        \* the registry's credentials and the lengths the engine passes
  authOut,       \* the bytes written to wg, un and pw, once auth_wrapper is done
  \* SpecOps: the calls of one thread on one client
  opc,           \* position in the operation
  op,            \* the operation called
  lock,          \* the client's ctx mutex: "free" | "held"
  calls,         \* the engine calls made by the operation, in order
  raw,           \* the raw records the engine's read call has returned
  entries,       \* the `entries` vector of list_dir / list_dirplus
  cause,         \* the exit path the operation took
  result,        \* the operation's return value
  fd,            \* the descriptor the engine's open call returned (`fd`)
  \* SpecCfg: the getters and setters of one client
  engine,        \* the settings the engine keeps in the client's context
  given,         \* per setting, the argument of its last successful setter call
  cfgRes,        \* the last getter or setter call: operation, argument, result
  \* SpecUri: build_uri and uri
  uriIn,         \* server, share and path
  uriOut         \* the client's base uri and the uri passed to the engine

coreVars == <<pc, cl, creds, st, ctx, nfree, heap, AUTH_SERVICE, holder>>
authVars == <<authIn, authOut>>
opsVars == <<opc, op, lock, calls, raw, entries, cause, result, fd>>
cfgVars == <<engine, given, cfgRes>>
uriVars == <<uriIn, uriOut>>
vars == <<coreVars, authVars, opsVars, cfgVars, uriVars>>

\* the state of each part while a specification of another part runs
CoreIdle ==
  /\ pc = << >> /\ cl = << >> /\ creds = << >> /\ st = << >> /\ ctx = << >>
  /\ nfree = << >> /\ heap = << >> /\ AUTH_SERVICE = << >> /\ holder = << >>
NoWrites == [done |-> FALSE, wg |-> << >>, un |-> << >>, pw |-> << >>]
AuthIdle == authIn = << >> /\ authOut = NoWrites
NoResult == [ok |-> FALSE, err |-> "pending", code |-> 0, val |-> << >>]
OpsIdle ==
  /\ opc = "idle" /\ op = "none" /\ lock = "free" /\ calls = << >>
  /\ raw = << >> /\ entries = << >> /\ cause = "none" /\ result = NoResult
  /\ fd = Null
NoCall == [op |-> "none", arg |-> << >>, res |-> NoResult]
CfgIdle == engine = << >> /\ given = << >> /\ cfgRes = NoCall
NoUri == [built |-> FALSE, done |-> FALSE, base |-> << >>, uri |-> << >>]
UriIdle == uriIn = << >> /\ uriOut = NoUri

\* ----------------------------------------------------------------- locks
SMBC_MUTEX == <<"SMBC_MUTEX", 0>>
AUTH_LOCK == <<"AUTH_SERVICE", 0>>
CtxLock(k) == <<"ctx", k>>
Locks == {SMBC_MUTEX, AUTH_LOCK} \cup {CtxLock(k) : k \in Clients}

Held(t) == {l \in Locks : holder[l] = t}

\* Mutex::lock: blocks until the mutex is free, then the caller holds it
MutexLock(t, l) == holder[l] = NoThread /\ holder' = [holder EXCEPT ![l] = t]

\* dropping the guards of the locks in ls
Unlocked(ls) == [l \in Locks |-> IF l \in ls THEN NoThread ELSE holder[l]]

\* the `credentials` SmbClient::new is given for client k: every client its own
credentials(k) == k

\* ------------------------------------------------------------- registry
\* a key that is the same for every context (the pointer's type, not its value)
auth_service_uuid_constant(a) == 1

\* auth_service_uuid: format!("{:?}", ctx), the address printed; one string per address
auth_service_uuid(a) == a

Identities == {auth_service_uuid(a) : a \in Addrs}

\* AuthService::insert / get / remove
AuthInsert(m, id, c) == [m EXCEPT ![id] = c]
AuthGet(m, id) == m[id]
AuthRemove(m, id) == [m EXCEPT ![id] = NoCreds]

\* ------------------------------------------------------------------ Init
Init ==
  /\ pc = [t \in Threads |-> "idle"]
  /\ cl = [t \in Threads |-> NoClient]
  /\ creds = [t \in Threads |-> NoCreds]
  /\ st = [k \in Clients |-> "none"]
  /\ ctx = [k \in Clients |-> Null]
  /\ nfree = [k \in Clients |-> 0]
  /\ heap = [a \in Addrs |-> "free"]
  /\ AUTH_SERVICE = [id \in Identities |-> NoCreds]
  /\ holder = [l \in Locks |-> NoThread]
  /\ AuthIdle
  /\ OpsIdle
  /\ CfgIdle
  /\ UriIdle

\* thread t moves to `label`
Goto(t, label) ==
  pc' = [pc EXCEPT ![t] = label] /\ UNCHANGED <<authVars, opsVars, cfgVars, uriVars>>

\* --------------------------------------------------------- SmbClient::new
\* SmbClient::new is entered for a client value k not in use
New_call(t) ==
  /\ pc[t] = "idle"
  /\ \E k \in Clients :
       /\ st[k] \in {"none", "dead"}
       /\ st' = [st EXCEPT ![k] = "new"]
       /\ ctx' = [ctx EXCEPT ![k] = Null]
       /\ nfree' = [nfree EXCEPT ![k] = 0]
       /\ cl' = [cl EXCEPT ![t] = k]
  /\ Goto(t, "ctxnew_lock")
  /\ UNCHANGED <<creds, heap, AUTH_SERVICE, holder>>

\* SmbContext::new: let _guard = SMBC_MUTEX.lock().unwrap()
SmbContext_new_lock(t) ==
  /\ pc[t] = "ctxnew_lock"
  /\ MutexLock(t, SMBC_MUTEX)
  /\ Goto(t, "ctxnew_alloc")
  /\ UNCHANGED <<cl, creds, st, ctx, nfree, heap, AUTH_SERVICE>>

\* SmbClient::new returns the error of SmbContext::new: no client
NewFailed(t) ==
  /\ st' = [st EXCEPT ![cl[t]] = "none"]
  /\ ctx' = [ctx EXCEPT ![cl[t]] = Null]
  /\ cl' = [cl EXCEPT ![t] = NoClient]
  /\ Goto(t, "idle")

\* smbc_new_context(): a fresh address, or null (result_from_ptr_mut(..)? returns)
SmbContext_new_alloc(t) ==
  /\ pc[t] = "ctxnew_alloc"
  /\ \/ /\ \E a \in Addrs :
             /\ heap[a] = "free"
             /\ heap' = [heap EXCEPT ![a] = "alloc"]
             /\ ctx' = [ctx EXCEPT ![cl[t]] = a]
        /\ Goto(t, "ctxnew_init")
        /\ UNCHANGED <<cl, st, holder>>
     \/ /\ NewFailed(t)
        /\ holder' = Unlocked({SMBC_MUTEX})
        /\ UNCHANGED heap
  /\ UNCHANGED <<creds, nfree, AUTH_SERVICE>>

\* an initialisation whose failure return keeps the guard
SmbContext_new_init_keeps_guard(t) ==
  /\ pc[t] = "ctxnew_init"
  /\ \/ /\ heap' = [heap EXCEPT ![ctx[cl[t]]] = "init"]
        /\ Goto(t, "new_config")
        /\ holder' = Unlocked({SMBC_MUTEX})
        /\ UNCHANGED <<cl, st, ctx>>
     \/ /\ NewFailed(t)
        /\ UNCHANGED <<heap, holder>>
  /\ UNCHANGED <<creds, nfree, AUTH_SERVICE>>

\* smbc_init_context(inner): inner, or null (`?` returns; inner is a raw pointer
\* that no SmbContext owns yet, so nothing frees it)
SmbContext_new_init(t) ==
  /\ pc[t] = "ctxnew_init"
  /\ \/ /\ heap' = [heap EXCEPT ![ctx[cl[t]]] = "init"]
        /\ Goto(t, "new_config")
        /\ UNCHANGED <<cl, st, ctx>>
     \/ /\ NewFailed(t)
        /\ UNCHANGED heap
  /\ holder' = Unlocked({SMBC_MUTEX})
  /\ UNCHANGED <<creds, nfree, AUTH_SERVICE>>

\* smbc_setFunctionAuthDataWithContext(*ctx, Some(auth_wrapper)); setup_options
New_config(t) ==
  /\ pc[t] = "new_config"
  /\ heap' = [heap EXCEPT ![ctx[cl[t]]] = "auth"]
  /\ Goto(t, "new_auth_lock")
  /\ UNCHANGED <<cl, creds, st, ctx, nfree, AUTH_SERVICE, holder>>

\* AUTH_SERVICE.lock().unwrap()
New_auth_lock(t) ==
  /\ pc[t] = "new_auth_lock"
  /\ MutexLock(t, AUTH_LOCK)
  /\ Goto(t, "new_insert")
  /\ UNCHANGED <<cl, creds, st, ctx, nfree, heap, AUTH_SERVICE>>

\* .insert(auth_service_uuid(*ctx), credentials); Ok(SmbClient { uri, ctx })
New_insert(t) ==
  /\ pc[t] = "new_insert"
  /\ AUTH_SERVICE' =
       AuthInsert(AUTH_SERVICE, auth_service_uuid(ctx[cl[t]]), credentials(cl[t]))
  /\ holder' = Unlocked({AUTH_LOCK})
  /\ st' = [st EXCEPT ![cl[t]] = "alive"]
  /\ cl' = [cl EXCEPT ![t] = NoClient]
  /\ Goto(t, "idle")
  /\ UNCHANGED <<creds, ctx, nfree, heap>>

\* ------------------------------------------- context-bound operations
\* a thread that shares a reference to a live client calls one of its operations
Op_call(t) ==
  /\ pc[t] = "idle"
  /\ \E k \in Clients :
       /\ st[k] = "alive"
       /\ cl' = [cl EXCEPT ![t] = k]
  /\ Goto(t, "op_lock")
  /\ UNCHANGED <<creds, st, ctx, nfree, heap, AUTH_SERVICE, holder>>

\* operations that take one lock for all clients
OpLock_process_wide(t) == SMBC_MUTEX

\* the lock an operation takes first: let ctx = self.ctx.lock().unwrap()
OpLock(t) == CtxLock(cl[t])

\* an operation that goes to the engine without the guard
Op_lock_skipped(t) ==
  /\ pc[t] = "op_lock"
  /\ Goto(t, "op_engine")
  /\ UNCHANGED <<cl, creds, st, ctx, nfree, heap, AUTH_SERVICE, holder>>

Op_lock(t) ==
  /\ pc[t] = "op_lock"
  /\ MutexLock(t, OpLock(t))
  /\ Goto(t, "op_engine")
  /\ UNCHANGED <<cl, creds, st, ctx, nfree, heap, AUTH_SERVICE>>

\* inside an engine call on **ctx the engine needs a session and calls the
\* authentication function installed on the context, on the calling thread
Op_engine_auth(t) ==
  /\ pc[t] = "op_engine"
  /\ heap[ctx[cl[t]]] = "auth"
  /\ Goto(t, "auth_lock")
  /\ UNCHANGED <<cl, creds, st, ctx, nfree, heap, AUTH_SERVICE, holder>>

\* an operation whose guard outlives its return
Op_return_keeps_guard(t) ==
  /\ pc[t] = "op_engine"
  /\ cl' = [cl EXCEPT ![t] = NoClient]
  /\ Goto(t, "idle")
  /\ UNCHANGED <<creds, st, ctx, nfree, heap, AUTH_SERVICE, holder>>

\* the engine call returns, the operation returns and the guard `ctx` is dropped
Op_return(t) ==
  /\ pc[t] = "op_engine"
  /\ holder' = Unlocked({CtxLock(cl[t])})
  /\ cl' = [cl EXCEPT ![t] = NoClient]
  /\ Goto(t, "idle")
  /\ UNCHANGED <<creds, st, ctx, nfree, heap, AUTH_SERVICE>>

\* ------------------------------------------------------------ auth_wrapper
\* a callback that goes through the client's ctx() accessor
AuthWrapperLock_client(t) == CtxLock(cl[t])

\* a callback that locks the client again to read its credentials
AuthWrapperLock_reentrant(t) == OpLock(t)

\* the lock auth_wrapper asks for: AUTH_SERVICE.lock().unwrap()
AuthWrapperLock(t) == AUTH_LOCK

auth_wrapper_lock(t) ==
  /\ pc[t] = "auth_lock"
  /\ MutexLock(t, AuthWrapperLock(t))
  /\ Goto(t, "auth_get")
  /\ UNCHANGED <<cl, creds, st, ctx, nfree, heap, AUTH_SERVICE>>

\* let creds = ... .get(Self::auth_service_uuid(ctx)).clone(); the guard is a
\* temporary of this statement and is dropped at its end
auth_wrapper_get(t) ==
  /\ pc[t] = "auth_get"
  /\ creds' = [creds EXCEPT ![t] = AuthGet(AUTH_SERVICE, auth_service_uuid(ctx[cl[t]]))]
  /\ holder' = Unlocked(Held(t) \ {CtxLock(cl[t])})
  /\ Goto(t, "auth_write")
  /\ UNCHANGED <<cl, st, ctx, nfree, heap, AUTH_SERVICE>>

\* the three write_to_cstr calls (SpecAuth has their bytes); back in the engine
auth_wrapper_write(t) ==
  /\ pc[t] = "auth_write"
  /\ creds' = [creds EXCEPT ![t] = NoCreds]
  /\ Goto(t, "op_engine")
  /\ UNCHANGED <<cl, st, ctx, nfree, heap, AUTH_SERVICE, holder>>

\* ---------------------------------------------------- Drop for SmbClient
\* drop takes &mut self: it starts only when no operation borrows the client
Drop_call(t) ==
  /\ pc[t] = "idle"
  /\ \E k \in Clients :
       /\ st[k] = "alive"
       /\ \A u \in Threads : cl[u] # k
       /\ st' = [st EXCEPT ![k] = "drop"]
       /\ cl' = [cl EXCEPT ![t] = k]
  /\ Goto(t, "drop_lock")
  /\ UNCHANGED <<creds, ctx, nfree, heap, AUTH_SERVICE, holder>>

\* a destructor that frees the native context before it removes the entry
Drop_lock_frees_first(t) ==
  /\ pc[t] = "drop_lock"
  /\ MutexLock(t, CtxLock(cl[t]))
  /\ heap' = [heap EXCEPT ![ctx[cl[t]]] = "free"]
  /\ nfree' = [nfree EXCEPT ![cl[t]] = @ + 1]
  /\ Goto(t, "drop_auth_lock")
  /\ UNCHANGED <<cl, creds, st, ctx, AUTH_SERVICE>>

\* let ctx = self.ctx.lock().unwrap()
Drop_lock(t) ==
  /\ pc[t] = "drop_lock"
  /\ MutexLock(t, CtxLock(cl[t]))
  /\ Goto(t, "drop_auth_lock")
  /\ UNCHANGED <<cl, creds, st, ctx, nfree, heap, AUTH_SERVICE>>

\* AUTH_SERVICE.lock().unwrap()
Drop_auth_lock(t) ==
  /\ pc[t] = "drop_auth_lock"
  /\ MutexLock(t, AUTH_LOCK)
  /\ Goto(t, "drop_remove")
  /\ UNCHANGED <<cl, creds, st, ctx, nfree, heap, AUTH_SERVICE>>

\* a destructor that leaves the entry in the registry
DropRemove_skipped(t) == AUTH_SERVICE

\* .remove(Self::auth_service_uuid(**ctx))
DropRemove(t) == AuthRemove(AUTH_SERVICE, auth_service_uuid(ctx[cl[t]]))

\* a destructor whose client guard outlives it
DropReleased_registry_only(t) == {AUTH_LOCK}

\* the guards that go out of scope when SmbClient::drop returns: the registry's
\* temporary and `ctx`
DropReleased(t) == {AUTH_LOCK, CtxLock(cl[t])}

\* a destructor that also frees the native context itself, before its field does
Drop_remove_and_free(t) ==
  /\ pc[t] = "drop_remove"
  /\ AUTH_SERVICE' = AuthRemove(AUTH_SERVICE, auth_service_uuid(ctx[cl[t]]))
  /\ heap' = [heap EXCEPT ![ctx[cl[t]]] = "free"]
  /\ nfree' = [nfree EXCEPT ![cl[t]] = @ + 1]
  /\ holder' = Unlocked({AUTH_LOCK, CtxLock(cl[t])})
  /\ Goto(t, "ctxdrop_lock")
  /\ UNCHANGED <<cl, creds, st, ctx>>

\* the removal; both guards are dropped when drop() returns, then the fields of
\* the client are dropped, the SmbContext among them
Drop_remove(t) ==
  /\ pc[t] = "drop_remove"
  /\ AUTH_SERVICE' = DropRemove(t)
  /\ holder' = Unlocked(DropReleased(t))
  /\ Goto(t, "ctxdrop_lock")
  /\ UNCHANGED <<cl, creds, st, ctx, nfree, heap>>

\* --------------------------------------------------- Drop for SmbContext
\* a destructor that frees without the process-wide guard
SmbContext_drop_lock_skipped(t) ==
  /\ pc[t] = "ctxdrop_lock"
  /\ Goto(t, "ctxdrop_free")
  /\ UNCHANGED <<cl, creds, st, ctx, nfree, heap, AUTH_SERVICE, holder>>

\* let _guard = SMBC_MUTEX.lock().unwrap()
SmbContext_drop_lock(t) ==
  /\ pc[t] = "ctxdrop_lock"
  /\ MutexLock(t, SMBC_MUTEX)
  /\ Goto(t, "ctxdrop_free")
  /\ UNCHANGED <<cl, creds, st, ctx, nfree, heap, AUTH_SERVICE>>

\* smbc_free_context(self.inner, 1): the address goes back to the engine
smbc_free_context(t) ==
  /\ heap' = [heap EXCEPT ![ctx[cl[t]]] = "free"]
  /\ nfree' = [nfree EXCEPT ![cl[t]] = @ + 1]

SmbContext_drop_free(t) ==
  /\ pc[t] = "ctxdrop_free"
  /\ smbc_free_context(t)
  /\ holder' = Unlocked({SMBC_MUTEX})
  /\ st' = [st EXCEPT ![cl[t]] = "dead"]
  /\ cl' = [cl EXCEPT ![t] = NoClient]
  /\ Goto(t, "idle")
  /\ UNCHANGED <<creds, ctx, AUTH_SERVICE>>

Next == \E t \in Threads :
  \/ New_call(t)
  \/ SmbContext_new_lock(t)
  \/ SmbContext_new_alloc(t)
  \/ SmbContext_new_init(t)
  \/ New_config(t)
  \/ New_auth_lock(t)
  \/ New_insert(t)
  \/ Op_call(t)
  \/ Op_lock(t)
  \/ Op_engine_auth(t)
  \/ Op_return(t)
  \/ auth_wrapper_lock(t)
  \/ auth_wrapper_get(t)
  \/ auth_wrapper_write(t)
  \/ Drop_call(t)
  \/ Drop_lock(t)
  \/ Drop_auth_lock(t)
  \/ Drop_remove(t)
  \/ SmbContext_drop_lock(t)
  \/ SmbContext_drop_free(t)

Spec == Init /\ [][Next]_vars

\* ----------------------------------------------- operations on live clients
\* some of the clients have been constructed, each on its own context, with
\* its entry
InitLive ==
  /\ pc = [t \in Threads |-> "idle"]
  /\ cl = [t \in Threads |-> NoClient]
  /\ creds = [t \in Threads |-> NoCreds]
  /\ \E live \in SUBSET Clients :
       /\ st = [k \in Clients |-> IF k \in live THEN "alive" ELSE "none"]
       /\ ctx = [k \in Clients |-> IF k \in live THEN k ELSE Null]
       /\ heap = [a \in Addrs |-> IF a \in live THEN "auth" ELSE "free"]
       /\ AUTH_SERVICE =
            [id \in Identities |->
               IF \E k \in live : auth_service_uuid(k) = id
                 THEN credentials(CHOOSE k \in live : auth_service_uuid(k) = id)
                 ELSE NoCreds]
  /\ nfree = [k \in Clients |-> 0]
  /\ holder = [l \in Locks |-> NoThread]
  /\ AuthIdle /\ OpsIdle /\ CfgIdle /\ UriIdle

\* the threads call operations, and no client is constructed or dropped
NextUse == \E t \in Threads :
  \/ Op_call(t)
  \/ Op_lock(t)
  \/ Op_engine_auth(t)
  \/ Op_return(t)
  \/ auth_wrapper_lock(t)
  \/ auth_wrapper_get(t)
  \/ auth_wrapper_write(t)

SpecUse == InitLive /\ [][NextUse]_vars

\* a thread that holds the registry's lock goes on to the end of the statement
\* that releases it; every engine call returns; a thread blocked in lock() gets
\* the mutex if it stays free (std::sync::Mutex promises no more: a thread that
\* unlocks may lock again ahead of the waiters)
SpecUseFair ==
  /\ SpecUse
  /\ \A t \in Threads :
       /\ WF_vars(auth_wrapper_get(t)) /\ WF_vars(auth_wrapper_write(t))
       /\ SF_vars(Op_return(t))
       /\ WF_vars(Op_lock(t)) /\ WF_vars(auth_wrapper_lock(t))

\* a mutex that serves its waiters in turn: a thread blocked in lock() gets the
\* mutex if it is free again and again
MutexGrantsFairly ==
  \A t \in Threads : SF_vars(Op_lock(t)) /\ SF_vars(auth_wrapper_lock(t))

\* ------------------------------------------------------ claims under Spec
\* positions inside auth_wrapper, inside an engine call of an operation, inside
\* the engine's context routines, and of a client's destructor before its removal
AuthPcs == {"auth_lock", "auth_get", "auth_write"}
EnginePcs == {"op_engine"} \cup AuthPcs
ContextRoutinePcs == {"ctxnew_alloc", "ctxnew_init", "ctxdrop_free"}
BeforeRemovePcs == {"drop_lock", "drop_auth_lock", "drop_remove"}

\* client k owns a context whose registry entry the code has inserted and not removed
Registered(k) ==
  \/ st[k] = "alive"
  \/ st[k] = "drop" /\ \E t \in Threads : cl[t] = k /\ pc[t] \in BeforeRemovePcs

\* C1: the registry holds an entry under an identity iff a live client owns that
\* context: every client SmbClient::new has returned has its entry, with its own
\* credentials; every entry is that of a client not yet through its destructor's
\* removal; and once a client's drop has completed no entry is left under its
\* identity, unless a later client owns that address now.
C1_RegistryIffLive ==
  /\ \A k \in Clients :
       st[k] = "alive" =>
         AuthGet(AUTH_SERVICE, auth_service_uuid(ctx[k])) = credentials(k)
  /\ \A id \in DOMAIN AUTH_SERVICE :
       AUTH_SERVICE[id] # NoCreds =>
         \E k \in Clients :
           /\ Registered(k)
           /\ auth_service_uuid(ctx[k]) = id
           /\ AUTH_SERVICE[id] = credentials(k)
  /\ \A k \in Clients :
       st[k] = "dead" =>
         \/ AuthGet(AUTH_SERVICE, auth_service_uuid(ctx[k])) = NoCreds
         \/ \E j \in Clients \ {k} : Registered(j) /\ ctx[j] = ctx[k]

\* a client is alive, with its entry, at the address of a client dropped before it
C1_Witness ==
  \E k, j \in Clients :
    /\ k # j /\ st[k] = "alive" /\ st[j] = "dead" /\ ctx[j] = ctx[k]
    /\ AUTH_SERVICE[auth_service_uuid(ctx[k])] = credentials(k)

\* C2: every invocation of the authentication callback for the context of client
\* k hands the engine the credentials SmbClient::new was given for k, never those
\* of another client.
C2_CallbackOwnCredentials ==
  \A t \in Threads : pc[t] = "auth_write" => creds[t] = credentials(cl[t])

\* the callback writes the credentials of its own client while another client,
\* with other credentials, is alive too
C2_Witness ==
  \E t \in Threads, j \in Clients :
    /\ pc[t] = "auth_write" /\ creds[t] = credentials(cl[t])
    /\ j # cl[t] /\ st[j] = "alive"

\* C4: auth_wrapper runs on a thread that holds the lock of the client whose
\* operation triggered it; the only lock it asks for is the registry's; it holds
\* no lock but these two, and has released the registry's lock before it writes
\* and returns.
C4_CallbackOnlyRegistryLock ==
  \A t \in Threads :
    /\ pc[t] \in AuthPcs =>
         /\ CtxLock(cl[t]) \in Held(t)
         /\ Held(t) \subseteq {CtxLock(cl[t]), AUTH_LOCK}
    /\ pc[t] = "auth_lock" =>
         AuthWrapperLock(t) = AUTH_LOCK /\ AuthWrapperLock(t) \notin Held(t)
    /\ pc[t] = "auth_get" => AUTH_LOCK \in Held(t)
    /\ pc[t] \in {"auth_write", "op_engine"} => AUTH_LOCK \notin Held(t)

\* the callback holds the registry lock and its client's lock, while another
\* thread waits for the registry lock
C4_Witness ==
  \E t, u \in Threads :
    /\ pc[t] = "auth_get" /\ Held(t) = {CtxLock(cl[t]), AUTH_LOCK}
    /\ u # t /\ pc[u] \in {"auth_lock", "new_auth_lock", "drop_auth_lock"}

\* C5: at most one thread at a time is inside an engine call on a client's
\* context, and that thread holds the client's lock from before its first engine
\* call until after its last.
C5_OneThreadPerContext ==
  /\ \A t \in Threads : pc[t] \in EnginePcs => holder[CtxLock(cl[t])] = t
  /\ \A t, u \in Threads :
       (t # u /\ pc[t] \in EnginePcs /\ pc[u] \in EnginePcs) => cl[t] # cl[u]

\* one thread is inside an engine call on a client while another has called an
\* operation of the same client and waits for the lock
C5_Witness ==
  \E t, u \in Threads :
    t # u /\ cl[t] = cl[u] /\ pc[t] = "op_engine" /\ pc[u] = "op_lock"

\* C6: at most one thread at a time is inside smbc_new_context, smbc_init_context
\* or smbc_free_context, and it holds SMBC_MUTEX.
C6_ContextRoutinesSerialized ==
  /\ \A t \in Threads : pc[t] \in ContextRoutinePcs => holder[SMBC_MUTEX] = t
  /\ \A t, u \in Threads :
       (pc[t] \in ContextRoutinePcs /\ pc[u] \in ContextRoutinePcs) => t = u

\* one thread frees a context while another, constructing, waits for SMBC_MUTEX
C6_Witness ==
  \E t, u \in Threads : pc[t] = "ctxdrop_free" /\ pc[u] = "ctxnew_lock"

\* C7: the native context of a constructed client is not freed while the client
\* is alive nor before its destructor's last step, is freed there under
\* SMBC_MUTEX, has been freed exactly once when the drop has completed, belongs
\* to no other client, and is initialised whenever an operation is on it.
C7_ContextFreedOnce ==
  /\ \A k \in Clients :
       /\ st[k] \in {"alive", "drop"} => nfree[k] = 0 /\ heap[ctx[k]] = "auth"
       /\ st[k] = "dead" => nfree[k] = 1
       /\ \A j \in Clients :
            (j # k /\ st[j] \in {"alive", "drop"} /\ st[k] \in {"new", "alive", "drop"})
              => ctx[j] # ctx[k]
  /\ \A t \in Threads :
       /\ pc[t] = "ctxdrop_free" => holder[SMBC_MUTEX] = t /\ st[cl[t]] = "drop"
       /\ pc[t] \in EnginePcs \cup {"op_lock"} =>
            st[cl[t]] = "alive" /\ heap[ctx[cl[t]]] = "auth"

\* a client has been dropped, its context freed once, and the address is in use
\* again by a live client
C7_Witness ==
  \E k, j \in Clients :
    /\ st[k] = "dead" /\ nfree[k] = 1
    /\ j # k /\ st[j] = "alive" /\ ctx[j] = ctx[k] /\ heap[ctx[j]] = "auth"

\* C8: no native context is leaked when smbc_init_context fails: every allocated
\* context is owned by a client (under construction, alive or in its destructor).
C8_NoLeakOnInitFailure ==
  \A a \in Addrs :
    heap[a] # "free" =>
      \E k \in Clients : st[k] \in {"new", "alive", "drop"} /\ ctx[k] = a

\* positions inside SmbContext::new
ContextNewPcs == {"ctxnew_lock", "ctxnew_alloc", "ctxnew_init"}

\* C17: SmbClient::new inserts nothing into the registry and installs no
\* callback while it is in SmbContext::new, and when the allocation or the
\* initialisation fails it returns with no client, the registry as it was, no
\* callback installed on any context, and SMBC_MUTEX (and every other lock)
\* released by the thread.
C17_FailedNewLeavesNothing ==
  [][\A t \in Threads :
       /\ (pc[t] \in ContextNewPcs /\ pc'[t] # pc[t]) =>
            /\ AUTH_SERVICE' = AUTH_SERVICE
            /\ \A a \in Addrs : heap'[a] = "auth" => heap[a] = "auth"
       /\ (pc[t] \in {"ctxnew_alloc", "ctxnew_init"} /\ pc'[t] = "idle") =>
            /\ st'[cl[t]] = "none" /\ cl'[t] = NoClient
            /\ holder'[SMBC_MUTEX] = NoThread
            /\ \A l \in Locks : holder'[l] # t]_vars

\* an initialisation has failed: its context is left allocated, with no owner,
\* no callback and no entry, and every thread is back with no lock held
C17_Witness ==
  /\ \E a \in Addrs :
       /\ heap[a] = "alloc"
       /\ \A k \in Clients : ctx[k] # a
       /\ AUTH_SERVICE[auth_service_uuid(a)] = NoCreds
  /\ \A t \in Threads : pc[t] = "idle"
  /\ \A l \in Locks : holder[l] = NoThread
  /\ \A k \in Clients : st[k] = "none"

\* C18: SMBC_MUTEX is held only inside the engine's context routines, by a
\* thread that holds no other lock; a thread that asks for it holds no lock (the
\* destructor has released the client's lock by then); a thread that asks for a
\* client's lock, or is in an operation, does not hold it.
C18_EngineLockOnlyAroundContext ==
  \A t \in Threads :
    /\ SMBC_MUTEX \in Held(t) => pc[t] \in ContextRoutinePcs /\ Held(t) = {SMBC_MUTEX}
    /\ pc[t] \in {"ctxnew_lock", "ctxdrop_lock"} => Held(t) = {}
    /\ pc[t] \in {"op_lock", "drop_lock"} \cup EnginePcs => SMBC_MUTEX \notin Held(t)

\* a destructor, its client's lock released, waits for SMBC_MUTEX, which a
\* constructing thread holds
C18_Witness ==
  \E t, u \in Threads :
    /\ pc[t] = "ctxdrop_lock" /\ Held(t) = {}
    /\ pc[u] = "ctxnew_init" /\ Held(u) = {SMBC_MUTEX}

\* C19: a thread inside an engine call of an operation holds its client's lock
\* and no other; so while it is there a thread that has called an operation on
\* another client, which no third thread is using, can take that client's lock.
C19_ClientsIndependent ==
  /\ \A t \in Threads : pc[t] = "op_engine" => Held(t) = {CtxLock(cl[t])}
  /\ \A t, u \in Threads :
       ( /\ pc[t] \in EnginePcs /\ pc[u] = "op_lock" /\ cl[u] # cl[t]
         /\ \A w \in Threads \ {u} : cl[w] # cl[u] ) => ENABLED Op_lock(u)

\* two threads are inside engine calls on two clients at once
C19_Witness ==
  \E t, u \in Threads :
    /\ pc[t] = "op_engine" /\ pc[u] = "op_engine" /\ cl[t] # cl[u]
    /\ Held(t) = {CtxLock(cl[t])} /\ Held(u) = {CtxLock(cl[u])}

\* C23: the destructor removes the entry while the context is still allocated
\* and owned by its client alone, and the context is freed only after that; so
\* no entry is left under an address the engine may hand out again or on which a
\* client is being constructed, and every live client keeps its own entry
\* through the destructions of the others.
C23_RemovedBeforeFreed ==
  /\ \A t \in Threads :
       /\ pc[t] \in BeforeRemovePcs =>
            /\ heap[ctx[cl[t]]] = "auth" /\ nfree[cl[t]] = 0
            /\ \A j \in Clients \ {cl[t]} :
                 st[j] \in {"new", "alive", "drop"} => ctx[j] # ctx[cl[t]]
       /\ pc[t] \in {"ctxdrop_lock", "ctxdrop_free"} =>
            AUTH_SERVICE[auth_service_uuid(ctx[cl[t]])] = NoCreds
  /\ \A a \in Addrs :
       heap[a] \in {"free", "alloc", "init"} => AUTH_SERVICE[auth_service_uuid(a)] = NoCreds
  /\ \A k \in Clients :
       /\ (st[k] = "new" /\ ctx[k] # Null) =>
            AUTH_SERVICE[auth_service_uuid(ctx[k])] = NoCreds
       /\ st[k] = "alive" => AUTH_SERVICE[auth_service_uuid(ctx[k])] = credentials(k)

\* a client is being constructed on the address of a dropped client, whose
\* context was freed once, and finds no entry under it
C23_Witness ==
  \E k, j \in Clients :
    /\ st[k] = "dead" /\ nfree[k] = 1
    /\ st[j] = "new" /\ ctx[j] = ctx[k] /\ heap[ctx[j]] = "init"
    /\ AUTH_SERVICE[auth_service_uuid(ctx[j])] = NoCreds

\* the lock thread t is asking for, if it is at a lock() call
LockPcs ==
  {"ctxnew_lock", "new_auth_lock", "op_lock", "auth_lock", "drop_lock",
   "drop_auth_lock", "ctxdrop_lock"}
Wants(t) ==
  CASE pc[t] \in {"ctxnew_lock", "ctxdrop_lock"} -> SMBC_MUTEX
    [] pc[t] \in {"new_auth_lock", "drop_auth_lock"} -> AUTH_LOCK
    [] pc[t] = "auth_lock" -> AuthWrapperLock(t)
    [] pc[t] = "op_lock" -> OpLock(t)
    [] pc[t] = "drop_lock" -> CtxLock(cl[t])

\* thread t cannot take its next step
Blocked(t) == pc[t] \in LockPcs /\ holder[Wants(t)] # NoThread

\* the order in which the kinds of lock are taken
LockRank(l) == CASE l = SMBC_MUTEX -> 3 [] l = AUTH_LOCK -> 2 [] OTHER -> 1

\* C24: no set of threads is deadlocked (each blocked on a lock held by a thread
\* of the set); a thread asks only for locks above those it holds in one order of
\* the three kinds, so never for one it holds; and a thread that holds a lock is
\* in a call.
C24_NoDeadlock ==
  /\ \A D \in SUBSET Threads :
       D # {} => \E t \in D : ~(Blocked(t) /\ holder[Wants(t)] \in D)
  /\ \A t \in Threads :
       pc[t] \in LockPcs =>
         /\ Wants(t) \notin Held(t)
         /\ \A h \in Held(t) : LockRank(h) < LockRank(Wants(t))
  /\ \A l \in Locks : holder[l] # NoThread => pc[holder[l]] # "idle"

\* a destructor holds its client's lock and the registry's while a callback,
\* holding the lock of another client, waits for the registry's
C24_Witness ==
  \E t, u \in Threads :
    /\ pc[t] = "drop_remove" /\ Held(t) = {CtxLock(cl[t]), AUTH_LOCK}
    /\ pc[u] = "auth_lock" /\ Held(u) = {CtxLock(cl[u])} /\ Blocked(u)

\* a client's lock is held only by a thread inside an operation on that client
\* (or inside its destructor), and a thread that has returned holds no lock
LockHeldOnlyInOperation ==
  /\ \A k \in Clients :
       holder[CtxLock(k)] # NoThread =>
         /\ cl[holder[CtxLock(k)]] = k
         /\ pc[holder[CtxLock(k)]] \in EnginePcs \cup {"drop_auth_lock", "drop_remove"}
  /\ \A t \in Threads : pc[t] = "idle" => Held(t) = {}

\* C25 as stated: a client's lock is free whenever no operation is in progress
\* on it; and, every engine call returning, an operation that waits for the
\* lock gets it, and an operation that has it returns.
C25_LockReleasedOnEveryReturn ==
  /\ []LockHeldOnlyInOperation
  /\ \A t \in Threads :
       (pc[t] = "op_lock") ~> (pc[t] = "op_engine" /\ holder[OpLock(t)] = t)
  /\ \A t \in Threads : (pc[t] = "op_engine") ~> (pc[t] = "idle")

\* C25, amended: a client's lock is free whenever no operation is in progress on
\* it; and, every engine call returning and the mutexes serving their waiters in
\* turn, an operation that waits for the lock gets it, and an operation that has
\* it returns.
C25_ReleasedAndGrantedInTurn ==
  /\ []LockHeldOnlyInOperation
  /\ MutexGrantsFairly =>
       /\ \A t \in Threads :
            (pc[t] = "op_lock") ~> (pc[t] = "op_engine" /\ holder[OpLock(t)] = t)
       /\ \A t \in Threads : (pc[t] = "op_engine") ~> (pc[t] = "idle")

\* a thread waits for the lock of a client while another, in an operation on
\* that client, is inside the callback
C25_Witness ==
  \E t, u \in Threads :
    /\ pc[u] = "op_lock" /\ pc[t] = "auth_write" /\ cl[t] = cl[u]
    /\ holder[CtxLock(cl[u])] = t

\* =================================================================
\* SpecAuth: auth_wrapper's writes
\* =================================================================
\* the bytes of a credential string, and the terminator
Chars == {"a", "b"}
NUL == "NUL"

\* the strings of at most n bytes
RECURSIVE StringsUpTo(_)
StringsUpTo(n) ==
  IF n = 0 THEN {<< >>}
  ELSE LET shorter == StringsUpTo(n - 1)
       IN shorter \cup {Append(w, c) : w \in {x \in shorter : Len(x) = n - 1}, c \in Chars}

\* the lengths the engine passes as c_int: a negative one, zero, and lengths
\* shorter than, equal to and longer than the strings
CIntLengths == -1..(MaxStrLen + 1)

Min(a, b) == IF a <= b THEN a ELSE b

\* `len as usize` of a c_int: sign-extended and reinterpreted, so a negative
\* length becomes one near the top of the range
AsUsize(i) == i % (2 ^ UsizeBits)

\* utils::write_to_cstr(dest, len, src), the bytes it writes from dest on: src cut
\* to len - 1 bytes and the terminator, nothing into a buffer of no bytes
write_to_cstr(len, src) ==
  IF len = 0 THEN << >>
  ELSE SubSeq(src, 1, Min(Len(src), len - 1)) \o <<NUL>>

\* the engine calls the authentication function: the registry's credentials for
\* the context, and three buffers with their lengths
InitAuth ==
  /\ authIn \in [workgroup : StringsUpTo(MaxStrLen), username : StringsUpTo(MaxStrLen),
                 password : StringsUpTo(MaxStrLen),
                 wglen : CIntLengths, unlen : CIntLengths, pwlen : CIntLengths]
  /\ authOut = NoWrites
  /\ CoreIdle
  /\ OpsIdle
  /\ CfgIdle
  /\ UriIdle

\* auth_wrapper: the three write_to_cstr calls
auth_wrapper ==
  /\ ~authOut.done
  /\ authOut' = [done |-> TRUE,
                 wg |-> write_to_cstr(AsUsize(authIn.wglen), authIn.workgroup),
                 un |-> write_to_cstr(AsUsize(authIn.unlen), authIn.username),
                 pw |-> write_to_cstr(AsUsize(authIn.pwlen), authIn.password)]
  /\ UNCHANGED <<authIn, coreVars, opsVars, cfgVars, uriVars>>

NextAuth == auth_wrapper

SpecAuth == InitAuth /\ [][NextAuth]_vars

\* C3: for each of the three destinations the number of bytes auth_wrapper writes
\* never exceeds the length the engine supplied for it (wglen, unlen, pwlen, each
\* a c_int converted to usize before the write).
C3_WritesWithinLength ==
  authOut.done =>
    /\ Len(authOut.wg) <= authIn.wglen
    /\ Len(authOut.un) <= authIn.unlen
    /\ Len(authOut.pw) <= authIn.pwlen

\* =================================================================
\* SpecOps: the operations of one client, step by step
\* =================================================================
SimpleOps == {"unlink", "rename", "mkdir", "rmdir", "stat", "statvfs", "chmod", "print"}
ListOps == {"list_dir", "list_dirplus"}
Ops == SimpleOps \cup ListOps \cup {"open_with"}

\* errno values: get_fn's libc::EINVAL, and another one the engine may leave
EINVAL == 22
ENOENT == 2
Errnos == {EINVAL, ENOENT}

\* SmbResult values
Ok(v) == [ok |-> TRUE, err |-> "none", code |-> 0, val |-> v]
Err(e, c) == [ok |-> FALSE, err |-> e, code |-> c, val |-> << >>]

\* get_fn's error: std::io::Error::from_raw_os_error(libc::EINVAL)
GetFnError == EINVAL

\* `?` on a std::io::Result in a function returning SmbResult: the io::Error
\* becomes the SmbError that wraps it
FromIoError(code) == Err("Io", code)

\* utils::to_result_with_ioerror / utils::last_os_error: a negative return becomes
\* the last OS error
LastOsError(errno) == Err("Io", errno)

\* the raw records of the engine's read calls: a name, and whether
\* SmbDirent::try_from / SmbDirentInfo::try_from can decode the record
Names == {".", "..", "", "abc", "def"}
RawRecords == [name : Names, ok : BOOLEAN]

\* SmbDirent::try_from(*dirent), SmbDirentInfo::try_from(*direntplus)
TryFrom(r) == [ok |-> r.ok, name |-> r.name]

\* a filter that lets the parent directory through
ListDirStep_keeps_dotdot(es, r) ==
  LET dirent == TryFrom(r)
  IN IF dirent.ok /\ dirent.name # "." /\ dirent.name # ""
       THEN Append(es, [name |-> dirent.name])
       ELSE es

\* list_dir's match on the decoded record: pushed unless ".", ".." or empty; the
\* other two arms only log
ListDirStep(es, r) ==
  LET dirent == TryFrom(r)
  IN IF dirent.ok /\ dirent.name # "." /\ dirent.name # ".." /\ dirent.name # ""
       THEN Append(es, [name |-> dirent.name])
       ELSE es

\* a list_dirplus that puts the newest entry first
ListDirPlusStep_newest_first(es, r) ==
  LET direntplus == TryFrom(r)
  IN IF direntplus.ok /\ direntplus.name # "." /\ direntplus.name # ".."
          /\ direntplus.name # ""
       THEN <<[name |-> direntplus.name]>> \o es
       ELSE es

\* list_dirplus's match: the same on SmbDirentInfo
ListDirPlusStep(es, r) ==
  LET direntplus == TryFrom(r)
  IN IF direntplus.ok /\ direntplus.name # "." /\ direntplus.name # ".."
          /\ direntplus.name # ""
       THEN Append(es, [name |-> direntplus.name])
       ELSE es

\* descriptors the engine's open call returns, as pointer values: null, a valid
\* one, and one with the top bit set (negative when read as a signed integer of
\* the pointer's width)
NullFd == Null
Fds == {NullFd, 1, 2 ^ UsizeBits - 1}

\* `fd as i64`: the pointer's bits read as a signed integer of the same width
AsI64(p) == IF p >= 2 ^ (UsizeBits - 1) THEN p - 2 ^ UsizeBits ELSE p

\* utils::result_from_ptr_mut(ptr): the pointer, or the error of a null sentinel
result_from_ptr_mut(ptr) ==
  IF ptr = Null THEN [ok |-> FALSE, err |-> "BadFileDescriptor", code |-> 0, val |-> << >>]
  ELSE [ok |-> TRUE, err |-> "none", code |-> 0, val |-> <<ptr>>]

\* an open_with that only tests the pointer for null
OpenWithResult_null_test_only(d) == result_from_ptr_mut(d)

\* open_with after the open call: result_from_ptr_mut(..)?, then
\* if (fd as i64) < 0 { Err(SmbError::BadFileDescriptor) } else { Ok(SmbFile::new(self, fd)) }
OpenWithResult(d) ==
  LET ptr == result_from_ptr_mut(d)
  IN IF ~ptr.ok THEN ptr
     ELSE IF AsI64(d) < 0 THEN Err("BadFileDescriptor", 0)
     ELSE Ok(<<d>>)

\* the exit path of open_with for descriptor d
OpenWithCause(d) ==
  IF d = NullFd THEN "null_fd" ELSE IF AsI64(d) < 0 THEN "neg_fd" ELSE "none"

InitOps == OpsIdle /\ AuthIdle /\ CoreIdle /\ CfgIdle /\ UriIdle

OpsFrame == UNCHANGED <<coreVars, authVars, cfgVars, uriVars>>

\* the operation returns r: the guard `ctx` goes out of scope
Return(r, c) ==
  /\ result' = r
  /\ cause' = c
  /\ lock' = "free"
  /\ opc' = "returned"

\* an operation is called; it starts with let ctx = self.ctx.lock().unwrap()
Call ==
  /\ opc \in {"idle", "returned"}
  /\ lock = "free"
  /\ \E o \in Ops :
       /\ op' = o
       /\ opc' = IF o = "open_with" THEN "get_fn" ELSE "cstring"
  /\ lock' = "held"
  /\ calls' = << >> /\ raw' = << >> /\ entries' = << >>
  /\ cause' = "none" /\ result' = NoResult /\ fd' = NullFd
  /\ OpsFrame

\* utils::str_to_cstring(self.uri(path))?: fails on a path with an interior NUL
StrToCString ==
  /\ opc = "cstring"
  /\ \/ /\ opc' = IF op = "open_with" THEN "engine" ELSE "get_fn"
        /\ UNCHANGED <<lock, cause, result>>
     \/ Return(Err("CString", 0), "cstring")
  /\ UNCHANGED <<op, calls, raw, entries, fd>>
  /\ OpsFrame

\* the capability the operation resolves at position p
Capability(o, p) ==
  CASE p = "get_closedir" -> "closedir"
    [] p = "get_readdir" -> IF o = "list_dir" THEN "readdir" ELSE "readdirplus"
    [] o \in ListOps -> "opendir"
    [] OTHER -> o

\* where the operation goes once the capability is resolved
AfterGetFn(o, p) ==
  CASE p = "get_closedir" -> "get_readdir"
    [] p = "get_readdir" -> "readdir"
    [] o \in ListOps -> "opendir"
    [] o = "open_with" -> "cstring"
    [] OTHER -> "engine"

\* self.get_fn(**ctx, smbc_getFunctionX)?: the pointer, or the EINVAL io::Error
GetFn ==
  /\ opc \in {"get_fn", "get_closedir", "get_readdir"}
  /\ calls' = Append(calls, <<"get", Capability(op, opc)>>)
  /\ \/ /\ opc' = AfterGetFn(op, opc)
        /\ UNCHANGED <<lock, cause, result>>
     \/ Return(FromIoError(GetFnError), "no_fn")
  /\ UNCHANGED <<op, raw, entries, fd>>
  /\ OpsFrame

\* the single engine call of unlink, rename, mkdir, rmdir, chmod, print (through
\* to_result_with_ioerror) and of stat, statvfs (through last_os_error)
EngineCall ==
  /\ opc = "engine"
  /\ op \in SimpleOps
  /\ calls' = Append(calls, <<"call", op>>)
  /\ \/ Return(Ok(<< >>), "none")
     \/ \E errno \in Errnos : Return(LastOsError(errno), "neg_ret")
  /\ UNCHANGED <<op, raw, entries, fd>>
  /\ OpsFrame

\* open_with: result_from_ptr_mut(open_fn(..))?, then the (fd as i64) < 0 test
OpenCall ==
  /\ opc = "engine"
  /\ op = "open_with"
  /\ calls' = Append(calls, <<"call", "open">>)
  /\ \E d \in Fds :
       /\ fd' = d
       /\ Return(OpenWithResult(d), OpenWithCause(d))
  /\ UNCHANGED <<op, raw, entries>>
  /\ OpsFrame

\* a listing that closes the descriptor it got, null or not, before the error
OpenDir_closes_null ==
  /\ opc = "opendir"
  /\ \E d \in Fds :
       /\ fd' = d
       /\ IF d = NullFd
            THEN /\ calls' = calls \o << <<"call", "opendir">>, <<"call", "closedir">> >>
                 /\ Return(Err("BadFileDescriptor", 0), "null_fd")
            ELSE /\ calls' = Append(calls, <<"call", "opendir">>)
                 /\ opc' = "get_closedir"
                 /\ UNCHANGED <<lock, cause, result>>
  /\ UNCHANGED <<op, raw, entries>>
  /\ OpsFrame

\* let fd = opendir_fn(**ctx, path.as_ptr()); if fd.is_null() { return Err(..) }
\* (any other descriptor is taken as open: there is no sign test here)
OpenDir ==
  /\ opc = "opendir"
  /\ calls' = Append(calls, <<"call", "opendir">>)
  /\ \E d \in Fds :
       /\ fd' = d
       /\ IF d = NullFd
            THEN Return(Err("BadFileDescriptor", 0), "null_fd")
            ELSE /\ opc' = "get_closedir"
                 /\ UNCHANGED <<lock, cause, result>>
  /\ UNCHANGED <<op, raw, entries>>
  /\ OpsFrame

\* a loop that goes on reading after the null sentinel
ReadDir_reads_past_null ==
  /\ opc = "readdir"
  /\ calls' = Append(calls, <<"call", Capability(op, "get_readdir")>>)
  /\ \/ /\ opc' \in {"readdir", "closedir"}
        /\ UNCHANGED <<raw, entries>>
     \/ /\ Len(raw) < MaxRecords
        /\ \E r \in RawRecords :
             /\ raw' = Append(raw, r)
             /\ entries' = IF op = "list_dir" THEN ListDirStep(entries, r)
                           ELSE ListDirPlusStep(entries, r)
        /\ opc' = "readdir"
  /\ UNCHANGED <<op, lock, cause, result, fd>>
  /\ OpsFrame

\* one turn of the loop: readdir_fn(**ctx, fd), break on null, else the match
ReadDir ==
  /\ opc = "readdir"
  /\ calls' = Append(calls, <<"call", Capability(op, "get_readdir")>>)
  /\ \/ /\ opc' = "closedir"
        /\ UNCHANGED <<raw, entries>>
     \/ /\ Len(raw) < MaxRecords
        /\ \E r \in RawRecords :
             /\ raw' = Append(raw, r)
             /\ entries' = IF op = "list_dir" THEN ListDirStep(entries, r)
                           ELSE ListDirPlusStep(entries, r)
        /\ opc' = "readdir"
  /\ UNCHANGED <<op, lock, cause, result, fd>>
  /\ OpsFrame

\* let _ = closedir_fn(**ctx, fd); Ok(entries)
CloseDir ==
  /\ opc = "closedir"
  /\ calls' = Append(calls, <<"call", "closedir">>)
  /\ Return(Ok(entries), "none")
  /\ UNCHANGED <<op, raw, entries, fd>>
  /\ OpsFrame

NextOps ==
  \/ Call
  \/ StrToCString
  \/ GetFn
  \/ EngineCall
  \/ OpenCall
  \/ OpenDir
  \/ ReadDir
  \/ CloseDir

SpecOps == InitOps /\ [][NextOps]_vars

\* the calling thread keeps running and every engine call returns; the engine
\* returns the null sentinel after at most MaxRecords records
SpecOpsFair == SpecOps /\ WF_vars(NextOps)

\* ---------------------------------------------------- claims under SpecOps
\* C9: when the engine returns no function pointer for the capability, the
\* operation fails with UnsupportedOperation, which is not the Io error of a
\* negative engine return.
C9_MissingCapabilityUnsupported ==
  (opc = "returned" /\ cause = "no_fn") =>
    ~result.ok /\ result.err = "UnsupportedOperation"

HiddenNames == {".", "..", ""}
Listable(r) == TryFrom(r).ok /\ TryFrom(r).name \notin HiddenNames

\* C10: whatever records the engine has returned, records that fail to decode
\* among them, `entries` holds no entry named ".", ".." or "", every record
\* read that decodes to another name is in it (also after a record that failed),
\* and a listing that got to read returns success with these entries.
C10_ListingFiltersAndSkips ==
  op \in ListOps =>
    /\ \A i \in DOMAIN entries : entries[i].name \notin HiddenNames
    /\ \A i \in DOMAIN raw :
         Listable(raw[i]) => \E j \in DOMAIN entries : entries[j].name = raw[i].name
    /\ Len(raw) > 0 => opc \in {"readdir", "closedir", "returned"}
    /\ (opc = "returned" /\ Len(raw) > 0) => result = Ok(entries)

\* a listing returned success after a record that failed to decode, then "..",
\* then an ordinary record, which is the only entry
C10_Witness ==
  /\ op \in ListOps /\ opc = "returned" /\ Len(raw) = 3
  /\ ~raw[1].ok /\ raw[2] = [name |-> "..", ok |-> TRUE]
  /\ raw[3] = [name |-> "abc", ok |-> TRUE]
  /\ result = Ok(<<[name |-> "abc"]>>)

\* the number of times the operation has invoked the engine function `name`
CountCalls(name) == Cardinality({i \in DOMAIN calls : calls[i] = <<"call", name>>})

\* the listing's open call has been made, and returned a non-null descriptor
DirOpened == op \in ListOps /\ CountCalls("opendir") = 1 /\ fd # NullFd

\* C11: a listing whose open call returned a non-null descriptor has invoked the
\* close function exactly once on it when it returns, on every exit path, the
\* ones where resolving the close or the read function fails included.
C11_CloseExactlyOnce ==
  (DirOpened /\ opc = "returned") => CountCalls("closedir") = 1

\* C12: when the open call of a listing returns the null descriptor the listing
\* returns BadFileDescriptor at once: the open call is its last engine call, no
\* read and no close has been made, there are no entries, and the client's lock
\* is free.
C12_NullDescriptorReturnsAtOnce ==
  (op \in ListOps /\ CountCalls("opendir") = 1 /\ fd = NullFd) =>
    /\ opc = "returned"
    /\ result = Err("BadFileDescriptor", 0)
    /\ calls[Len(calls)] = <<"call", "opendir">>
    /\ CountCalls("readdir") = 0 /\ CountCalls("readdirplus") = 0
    /\ CountCalls("closedir") = 0
    /\ raw = << >> /\ entries = << >>
    /\ lock = "free"

\* list_dirplus has returned after an open call that gave the null descriptor
C12_Witness ==
  /\ op = "list_dirplus" /\ opc = "returned" /\ fd = NullFd
  /\ calls = << <<"get", "opendir">>, <<"call", "opendir">> >>
  /\ result = Err("BadFileDescriptor", 0)

\* C13: open_with returns a file handle only for a descriptor that is non-null
\* and non-negative when read as a signed integer; for the null descriptor and
\* for a non-null one that reads negative it returns BadFileDescriptor and no
\* handle.
C13_HandleOnlyForValidDescriptor ==
  (op = "open_with" /\ opc = "returned" /\ CountCalls("open") = 1) =>
    /\ result.ok <=> (fd # Null /\ fd < 2 ^ (UsizeBits - 1))
    /\ result.ok => result.val = <<fd>>
    /\ ~result.ok => result = Err("BadFileDescriptor", 0)

\* open_with has returned BadFileDescriptor for a non-null descriptor with the
\* top bit set
C13_Witness ==
  /\ op = "open_with" /\ opc = "returned" /\ CountCalls("open") = 1
  /\ fd = 2 ^ UsizeBits - 1
  /\ result = Err("BadFileDescriptor", 0)

\* the engine functions the operation has invoked, in order, and its read function
EngineCalls == SelectSeq(calls, LAMBDA c : c[1] = "call")
ReadFn == Capability(op, "get_readdir")

\* the open, read and close calls of a listing are in this order
DirCallsInOrder ==
  LET cs == EngineCalls
  IN /\ \A i \in DOMAIN cs : cs[i][2] = "opendir" <=> i = 1
     /\ \A i \in DOMAIN cs : cs[i][2] \in {"opendir", ReadFn, "closedir"}
     /\ \A i \in DOMAIN cs : cs[i][2] = "closedir" => i = Len(cs)

\* C21: in a listing the engine calls are the open, then reads, then the close,
\* each made with the client's lock held; every read but the one that returned
\* the null sentinel gave a record, and after that one no read is made; after
\* the close no call is made; and a listing that is reading returns.
C21_OpenReadsCloseInOrder ==
  /\ [](op \in ListOps =>
          /\ DirCallsInOrder
          /\ CountCalls(ReadFn) \in {Len(raw), Len(raw) + 1}
          /\ CountCalls(ReadFn) = Len(raw) + 1 => opc \in {"closedir", "returned"}
          /\ CountCalls("closedir") = 1 => opc = "returned"
          /\ opc \notin {"idle", "returned"} => lock = "held")
  /\ [][(op \in ListOps /\ calls' # calls /\ calls' # << >>) => lock = "held"]_vars
  /\ ((op \in ListOps /\ opc = "readdir") ~> (op \in ListOps /\ opc = "returned"))

\* list_dir has returned after the open, two reads that gave records, the read
\* that gave the null sentinel, and the close
C21_Witness ==
  /\ op = "list_dir" /\ opc = "returned" /\ lock = "free" /\ Len(raw) = 2
  /\ EngineCalls = << <<"call", "opendir">>, <<"call", "readdir">>, <<"call", "readdir">>,
                      <<"call", "readdir">>, <<"call", "closedir">> >>

\* the entries of the records in rs that decode and are not hidden, in order
RECURSIVE ListableEntries(_)
ListableEntries(rs) ==
  IF rs = << >> THEN << >>
  ELSE (IF Listable(Head(rs)) THEN <<[name |-> Head(rs).name]>> ELSE << >>)
         \o ListableEntries(Tail(rs))

\* C22: the entries of a listing are exactly the records read so far that decode
\* and are named none of ".", ".." and "", in the engine's order, none dropped,
\* duplicated or reordered; the listing that read to the null sentinel returns
\* them.
C22_EntriesAreListableSubsequence ==
  op \in ListOps =>
    /\ entries = ListableEntries(raw)
    /\ Len(entries) = Cardinality({i \in DOMAIN raw : Listable(raw[i])})
    /\ (opc = "returned" /\ CountCalls("closedir") = 1) => result = Ok(ListableEntries(raw))

\* list_dirplus returned two entries, in the engine's order, with a record that
\* failed to decode between them
C22_Witness ==
  /\ op = "list_dirplus" /\ opc = "returned"
  /\ raw = << [name |-> "def", ok |-> TRUE], [name |-> "abc", ok |-> FALSE],
              [name |-> "abc", ok |-> TRUE] >>
  /\ result = Ok(<< [name |-> "def"], [name |-> "abc"] >>)

\* =================================================================
\* SpecCfg: netbios name, workgroup, user and timeout of one client
\* =================================================================
\* width of c_int in the model (the build's is 32)
CIntBits == 4

\* the settings, with the setter and the getter of each
StringSettings == {"netbios_name", "workgroup", "user"}
Settings == StringSettings \cup {"timeout"}
StringSetters == {"set_netbios_name", "set_workgroup", "set_user"}
StringGetters == {"get_netbios_name", "get_workgroup", "get_user"}
Setters == StringSetters \cup {"set_timeout"}
SettingOf ==
  [set_netbios_name |-> "netbios_name", get_netbios_name |-> "netbios_name",
   set_workgroup |-> "workgroup", get_workgroup |-> "workgroup",
   set_user |-> "user", get_user |-> "user",
   set_timeout |-> "timeout", get_timeout |-> "timeout"]

\* a setter that writes the user whatever it is called for
EngineSet_user(o) == "user"

\* the field the engine function called by setter o writes: smbc_setNetbiosName,
\* smbc_setWorkgroup, smbc_setUser
EngineSet(o) ==
  CASE o = "set_netbios_name" -> "netbios_name"
    [] o = "set_workgroup" -> "workgroup"
    [] o = "set_user" -> "user"

\* the field the engine function called by getter o reads: smbc_getNetbiosName,
\* smbc_getWorkgroup, smbc_getUser
EngineGet(o) ==
  CASE o = "get_netbios_name" -> "netbios_name"
    [] o = "get_workgroup" -> "workgroup"
    [] o = "get_user" -> "user"

\* the names a caller passes: Rust strings, one of them with a NUL byte inside
CfgNames == {<< >>, <<"a">>, <<"a", "b">>, <<"a", NUL, "b">>}

\* utils::str_to_cstring(s): the bytes and a terminator, or an error when s has
\* a NUL byte inside
str_to_cstring(s) ==
  IF \E i \in DOMAIN s : s[i] = NUL THEN Err("CString", 0) ELSE Ok(s \o <<NUL>>)

\* a char pointer: its address and the bytes it points to
NullStr == [addr |-> Null, bytes |-> << >>]
PtrTo(c) == [addr |-> 1, bytes |-> c]

\* the bytes before the first NUL
RECURSIVE UpToNul(_)
UpToNul(c) ==
  IF c = << >> \/ Head(c) = NUL THEN << >> ELSE <<Head(c)>> \o UpToNul(Tail(c))

\* utils::char_ptr_to_string(ptr): the C string at ptr as a String
char_ptr_to_string(ptr) == Ok(UpToNul(ptr.bytes))

\* Duration values: whole milliseconds, and whether a part of a millisecond is
\* left over; the milliseconds around the ends of c_int's range and of its bits
DurationMillis ==
  {0, 1, 2 ^ (CIntBits - 1) - 1, 2 ^ (CIntBits - 1), 2 ^ CIntBits - 1, 2 ^ CIntBits}
Durations == [ms : DurationMillis, sub : BOOLEAN]

\* Duration::as_millis and Duration::from_millis
as_millis(d) == d.ms
from_millis(m) == [ms |-> m, sub |-> FALSE]

\* `as c_int` of the u128 millisecond count: the low bits, read as signed
AsCInt(n) ==
  LET low == n % (2 ^ CIntBits)
  IN IF low >= 2 ^ (CIntBits - 1) THEN low - 2 ^ CIntBits ELSE low

\* `as u64` of a c_int: sign-extended (u64 has the width of usize on the build)
AsU64(i) == i % (2 ^ UsizeBits)

\* the timeouts a fresh context may hold: the ends of c_int's range, -1 and 0
CInts == {-(2 ^ (CIntBits - 1)), -1, 0, 2 ^ (CIntBits - 1) - 1}

\* what the caller gave to the last successful setter call of a setting
Unset == [set |-> FALSE, val |-> << >>]
Given(v) == [set |-> TRUE, val |-> v]

\* the context after SmbClient::new: the engine's own defaults
EngineStrings ==
  {NullStr} \cup {PtrTo(str_to_cstring(n).val) : n \in {m \in CfgNames : str_to_cstring(m).ok}}

InitCfg ==
  /\ engine \in [netbios_name : EngineStrings, workgroup : EngineStrings,
                 user : EngineStrings, timeout : CInts]
  /\ given = [x \in Settings |-> Unset]
  /\ cfgRes = NoCall
  /\ CoreIdle /\ AuthIdle /\ OpsIdle /\ UriIdle

CfgFrame == UNCHANGED <<coreVars, authVars, opsVars, uriVars>>

\* set_netbios_name, set_workgroup, set_user: str_to_cstring(name)?, then
\* smbc_setX(**ctx, name.into_raw()), which stores the pointer's string; Ok(())
set_string ==
  /\ \E o \in StringSetters, name \in CfgNames :
       LET c == str_to_cstring(name)
       IN IF c.ok
            THEN /\ engine' = [engine EXCEPT ![EngineSet(o)] = PtrTo(c.val)]
                 /\ given' = [given EXCEPT ![SettingOf[o]] = Given(name)]
                 /\ cfgRes' = [op |-> o, arg |-> name, res |-> Ok(<< >>)]
            ELSE /\ cfgRes' = [op |-> o, arg |-> name, res |-> c]
                 /\ UNCHANGED <<engine, given>>
  /\ CfgFrame

\* get_netbios_name, get_workgroup, get_user:
\* result_from_ptr_mut(smbc_getX(**ctx))?, then char_ptr_to_string(ptr)
get_string ==
  /\ \E o \in StringGetters :
       LET ptr == engine[EngineGet(o)]
           checked == result_from_ptr_mut(ptr.addr)
       IN cfgRes' = [op |-> o, arg |-> << >>,
                     res |-> IF checked.ok THEN char_ptr_to_string(ptr) ELSE checked]
  /\ UNCHANGED <<engine, given>>
  /\ CfgFrame

\* a set_timeout that refuses a duration it cannot store
set_timeout_result_checked(d) ==
  IF as_millis(d) < 2 ^ (CIntBits - 1) /\ ~d.sub THEN Ok(<< >>) ELSE Err("BadValue", 0)

\* set_timeout's return value: Ok(()) after the engine call
set_timeout_result(d) == Ok(<< >>)

\* set_timeout: smbc_setTimeout(**ctx, timeout.as_millis() as c_int); Ok(())
set_timeout ==
  /\ \E d \in Durations :
       LET res == set_timeout_result(d)
       IN /\ engine' = [engine EXCEPT !.timeout = AsCInt(as_millis(d))]
          /\ given' = IF res.ok THEN [given EXCEPT !.timeout = Given(d)] ELSE given
          /\ cfgRes' = [op |-> "set_timeout", arg |-> d, res |-> res]
  /\ CfgFrame

\* get_timeout: Ok(Duration::from_millis(smbc_getTimeout(**ctx) as u64))
get_timeout ==
  /\ cfgRes' = [op |-> "get_timeout", arg |-> << >>,
                res |-> Ok(from_millis(AsU64(engine.timeout)))]
  /\ UNCHANGED <<engine, given>>
  /\ CfgFrame

NextCfg ==
  \/ set_string
  \/ get_string
  \/ set_timeout
  \/ get_timeout

SpecCfg == InitCfg /\ [][NextCfg]_vars

\* ---------------------------------------------------- claims under SpecCfg
\* C14: for netbios name, workgroup and user, after any sequence of setter
\* calls, the getter returns the value given to the most recent successful call
\* of the matching setter.
C14_StringRoundTrip ==
  (cfgRes.op \in StringGetters /\ given[SettingOf[cfgRes.op]].set) =>
    cfgRes.res = Ok(given[SettingOf[cfgRes.op]].val)

\* get_workgroup returns the workgroup set before the user was set to another
\* name and a set_netbios_name call failed
C14_Witness ==
  /\ cfgRes.op = "get_workgroup" /\ cfgRes.res = Ok(<<"a", "b">>)
  /\ given.workgroup = Given(<<"a", "b">>)
  /\ given.user = Given(<<"a">>)
  /\ ~given.netbios_name.set

\* C15: after set_timeout(d) has returned success, get_timeout returns exactly d.
C15_TimeoutRoundTrip ==
  (cfgRes.op = "get_timeout" /\ given.timeout.set) =>
    cfgRes.res = Ok(given.timeout.val)

\* C16 as stated: every setter call returns success, whatever its argument.
C16_SettersNeverFail == cfgRes.op \in Setters => cfgRes.res.ok

\* C16, amended: a setter call fails only for a name that cannot be encoded as a
\* C string (one with a NUL byte inside), with the encoding error and without
\* reaching the engine; for every other name, and set_timeout for every
\* duration, the call returns success whatever the engine stored.
C16_SettersFailOnlyOnEncoding ==
  cfgRes.op \in Setters =>
    /\ cfgRes.res.ok <=>
         (cfgRes.op = "set_timeout" \/ \A i \in DOMAIN cfgRes.arg : cfgRes.arg[i] # NUL)
    /\ ~cfgRes.res.ok => cfgRes.res = Err("CString", 0)

\* set_timeout returned success for a duration whose milliseconds do not fit the
\* c_int: the engine holds another value
C16_Witness ==
  /\ cfgRes.op = "set_timeout" /\ cfgRes.res.ok
  /\ as_millis(cfgRes.arg) = 2 ^ (CIntBits - 1)
  /\ engine.timeout # as_millis(cfgRes.arg)

\* =================================================================
\* SpecUri: build_uri and uri
\* =================================================================
\* the bytes of a server, share or path: the separator and another one
UriChars == {"/", "a"}

\* the strings over cs of at most n bytes
RECURSIVE StringsOver(_, _)
StringsOver(cs, n) ==
  IF n = 0 THEN {<< >>}
  ELSE LET shorter == StringsOver(cs, n - 1)
       IN shorter \cup {Append(w, c) : w \in {x \in shorter : Len(x) = n - 1}, c \in cs}

\* the share and the path of test::should_build_uri: "/temp" and "/test"
TempShare == <<"/", "t", "e", "m", "p">>
TestPath == <<"/", "t", "e", "s", "t">>

\* str::starts_with(c)
starts_with(str, c) == Len(str) > 0 /\ str[1] = c

\* a build_uri that always puts the separator
build_uri_always_slash(server, share) == server \o <<"/">> \o share

\* build_uri: format!("{}{}{}", server, match share.starts_with('/') { true => "",
\* false => "/" }, share)
build_uri(server, share) ==
  server \o (IF starts_with(share, "/") THEN << >> ELSE <<"/">>) \o share

\* uri: format!("{}{}", self.uri, p.as_ref())
uri(base, p) == base \o p

InitUri ==
  /\ uriIn \in [server : StringsOver(UriChars, MaxStrLen),
                share : StringsOver(UriChars, MaxStrLen) \cup {TempShare},
                path : StringsOver(UriChars, MaxStrLen) \cup {TestPath}]
  /\ uriOut = NoUri
  /\ CoreIdle /\ AuthIdle /\ OpsIdle /\ CfgIdle

UriFrame == UNCHANGED <<uriIn, coreVars, authVars, opsVars, cfgVars>>

\* SmbClient::new: let uri = Self::build_uri(credentials.server, credentials.share)
New_build_uri ==
  /\ ~uriOut.built
  /\ uriOut' = [uriOut EXCEPT !.built = TRUE,
                              !.base = build_uri(uriIn.server, uriIn.share)]
  /\ UriFrame

\* an operation on the client: self.uri(path) is what goes to the engine
Op_uri ==
  /\ uriOut.built /\ ~uriOut.done
  /\ uriOut' = [uriOut EXCEPT !.done = TRUE, !.uri = uri(uriOut.base, uriIn.path)]
  /\ UriFrame

NextUri ==
  \/ New_build_uri
  \/ Op_uri

SpecUri == InitUri /\ [][NextUri]_vars

\* the last n bytes of str are suffix
EndsWith(str, suffix) ==
  /\ Len(suffix) <= Len(str)
  /\ SubSeq(str, Len(str) - Len(suffix) + 1, Len(str)) = suffix

\* C20: the URI passed to the engine is the server, then one "/" if and only if
\* the share does not begin with "/", then the share, then the path, and nothing
\* else; for share "/temp" and path "/test" it ends with "/temp/test".
C20_UriIsServerShareThenPath ==
  uriOut.done =>
    LET sep == IF uriIn.share # << >> /\ Head(uriIn.share) = "/" THEN 0 ELSE 1
        ns == Len(uriIn.server)
        nh == Len(uriIn.share)
    IN /\ Len(uriOut.uri) = ns + sep + nh + Len(uriIn.path)
       /\ SubSeq(uriOut.uri, 1, ns) = uriIn.server
       /\ sep = 1 => uriOut.uri[ns + 1] = "/"
       /\ SubSeq(uriOut.uri, ns + sep + 1, ns + sep + nh) = uriIn.share
       /\ SubSeq(uriOut.uri, ns + sep + nh + 1, Len(uriOut.uri)) = uriIn.path
       /\ (uriIn.share = TempShare /\ uriIn.path = TestPath) =>
            EndsWith(uriOut.uri, <<"/", "t", "e", "m", "p", "/", "t", "e", "s", "t">>)

\* the URI of "/test" on share "/temp" of a server whose name ends with "/": no
\* separator was added
C20_Witness ==
  /\ uriOut.done
  /\ uriIn = [server |-> <<"a", "/">>, share |-> TempShare, path |-> TestPath]
  /\ uriOut.uri = <<"a", "/", "/", "t", "e", "m", "p", "/", "t", "e", "s", "t">>
====
